---- MODULE Spec2Model ----
(***************************************************************************)
(* The query parser of vscode-github-issue-notebooks (parser.ts) and the   *)
(* tree utilities of parser/nodes.ts (Utils.walk, Utils.nodeAt,            *)
(* Utils.print), as a state machine.                                       *)
(*                                                                         *)
(* One behaviour is: a text is handed to Parser.parse, which builds a tree *)
(* of node objects; afterwards Utils.walk, Utils.nodeAt and Utils.print    *)
(* are called on that tree in any order, any number of times.              *)
(*                                                                         *)
(* Node objects live in `heap` (a sequence of records, a node's identity   *)
(* is its index, 0 is `undefined`), because Utils.walk changes node        *)
(* objects in place (Array.prototype.reverse).                             *)
(*                                                                         *)
(* scanner.ts is not part of the sources at hand.  The scanner is          *)
(* modelled from its contract: the text is cut into tokens (type, start,   *)
(* end), next() yields the token at the cursor, resetPosition(token) moves *)
(* the cursor to token.start, value(token) is the covered substring.  The  *)
(* input of a behaviour is therefore a sequence of token kinds; the text   *)
(* is the concatenation of their lexemes.                                  *)
(***************************************************************************)
EXTENDS Integers, Sequences, FiniteSets

VARIABLES
    text,      \* Scanner._value: the text given to parse, a sequence of characters
    toks,      \* the tokens the scanner cuts `text` into (without EOF)
    pc,        \* "init" before parse was called, "parsed" afterwards
    _token,    \* Parser._token
    pos,       \* Scanner.pos
    heap,      \* the node objects allocated so far
    doc,       \* the QueryDocument returned by parse (0 before)
    log,       \* history of parse: loop iterations, rewinds, accepted ORs
    out        \* what the last call of a tree utility returned / reported

vars == <<text, toks, pc, _token, pos, heap, doc, log, out>>

--------------------------------------------------------------------------
(* Bounds *)

\* longest input, in tokens, over all token types
MaxTokens == 2
\* longest value, in tokens, after the "qualifier:" of a qualified value
MaxValueTokens == 3
\* longest input, in tokens, over the token types of query lines with OR and sort-by
MaxLineTokens == 5
\* the same for the inputs whose trees the tree utilities are called on
MaxTreeTokens == 3

--------------------------------------------------------------------------
(* Generic helpers *)

undefined == 0

Reverse(s) == [i \in 1..Len(s) |-> s[Len(s) + 1 - i]]

RangeOf(s) == {s[i] : i \in 1..Len(s)}

RECURSIVE Concat(_)
Concat(ss) == IF ss = <<>> THEN <<>> ELSE Head(ss) \o Concat(Tail(ss))

\* String.prototype.substring(start, end) on a sequence of characters
substring(str, start, end) ==
    LET a == IF start < end THEN start ELSE end
        b == IF start < end THEN end ELSE start
        bb == IF b > Len(str) THEN Len(str) ELSE b
    IN  SubSeq(str, a + 1, bb)

--------------------------------------------------------------------------
(* Scanner (modelled from its contract) *)

TokenType ==
    {"Literal", "QuotedLiteral", "Number", "Date", "DateTime", "Whitespace",
     "NewLine", "LineComment", "OR", "SortAscBy", "SortDescBy", "LessThan",
     "LessThanEqual", "GreaterThan", "GreaterThanEqual", "Range",
     "RangeFixedStart", "RangeFixedEnd", "Dash", "Colon", "Equals",
     "VariableName", "SHA"}

Letters == <<"a", "b", "c", "d", "e", "f", "g", "h", "i", "j">>
Digits == <<"0", "1", "2", "3", "4", "5", "6", "7", "8", "9">>

\* The characters of the j-th token of the input.  Words, numbers and names
\* differ from token to token, so that renderings can be told apart.
Lexeme(type, j) ==
    LET l == Letters[((j - 1) % 10) + 1]
        d == Digits[((j - 1) % 9) + 2]
    IN  CASE type = "Literal"          -> <<l>>
          [] type = "QuotedLiteral"    -> <<"\"", l, "\"">>
          [] type = "Number"           -> <<d>>
          [] type = "Date"             -> <<d, "-", d>>
          [] type = "DateTime"         -> <<d, "-", d, "T", d>>
          [] type = "Whitespace"       -> <<" ">>
          [] type = "NewLine"          -> <<"\n">>
          [] type = "LineComment"      -> <<"/", "/">>
          [] type = "OR"               -> <<"O", "R">>
          [] type = "SortAscBy"        -> <<"s", "+", ":">>
          [] type = "SortDescBy"       -> <<"s", "-", ":">>
          [] type = "LessThan"         -> <<"<">>
          [] type = "LessThanEqual"    -> <<"<", "=">>
          [] type = "GreaterThan"      -> <<">">>
          [] type = "GreaterThanEqual" -> <<">", "=">>
          [] type = "Range"            -> <<".", ".">>
          [] type = "RangeFixedStart"  -> <<".", ".", "*">>
          [] type = "RangeFixedEnd"    -> <<"*", ".", ".">>
          [] type = "Dash"             -> <<"-">>
          [] type = "Colon"            -> <<":">>
          [] type = "Equals"           -> <<"=">>
          [] type = "VariableName"     -> <<"$", l>>
          [] type = "SHA"              -> <<"f", d, "e">>

Token(type, start, end) == [type |-> type, start |-> start, end |-> end]

\* no token: what _accept returns when the current token does not match
NoToken == Token("", 0, 0)

TextOf(kinds) == Concat([j \in 1..Len(kinds) |-> Lexeme(kinds[j], j)])

RECURSIVE TokensFrom(_, _, _)
TokensFrom(kinds, j, at) ==
    IF j > Len(kinds) THEN <<>>
    ELSE LET e == at + Len(Lexeme(kinds[j], j))
         IN  <<Token(kinds[j], at, e)>> \o TokensFrom(kinds, j + 1, e)

TokensOf(kinds) == TokensFrom(kinds, 1, 0)

\* the token types whose lexeme is a word: two of them do not touch
WordTypes == {"Literal", "Number", "Date", "DateTime", "SHA", "OR"}

\* Token boundaries are stable: a run of blanks is one token, so is a word,
\* and a line comment reaches to the end of its line.
Scannable(kinds) ==
    \A j \in 1..(Len(kinds) - 1) :
        /\ ~(kinds[j] = "Whitespace" /\ kinds[j + 1] = "Whitespace")
        /\ ~(kinds[j] \in WordTypes /\ kinds[j + 1] \in WordTypes)
        /\ kinds[j] = "LineComment" => kinds[j + 1] = "NewLine"

Inputs(alphabet, n) ==
    {ks \in UNION {[1..m -> alphabet] : m \in 0..n} : Scannable(ks)}

\* Scanner.next() with the cursor at p: the token that starts at p, EOF at the end
ScannerNext(p) ==
    IF p < Len(text) /\ \E j \in 1..Len(toks) : toks[j].start = p
    THEN toks[CHOOSE j \in 1..Len(toks) : toks[j].start = p]
    ELSE Token("EOF", Len(text), Len(text))

\* Scanner.value(token)
ScannerValue(token) == substring(text, token.start, token.end)

\* Scanner.resetPosition(token): the new cursor
ScannerResetPosition(token) == token.start

-----------------------------------------------------------------------------------------------------------------------------------------------
(* Parser *)

\* `const x = v; F(x)`: v is evaluated once and F applied to its value
Let(v, F(_)) == CHOOSE r \in {F(x) : x \in {v}} : TRUE

\* The parser's mutable state while parse runs: its current token, the
\* scanner's cursor, the node objects allocated, and the history.
ParserState(tk, p, h, l) == [_token |-> tk, pos |-> p, heap |-> h, log |-> l]

\* a function's outcome: the state it leaves and the value it returns
Ret(s, r) == [s |-> s, r |-> r]

\* a new node object
New(s, node) == Ret([s EXCEPT !.heap = Append(@, node)], Len(s.heap) + 1)

\* a ?? b and a || b on objects: b is evaluated only if a is undefined
OrElse(a, B(_)) == Let(a, LAMBDA x : IF x.r # undefined THEN x ELSE B(x.s))

Logged(s, e) == [s EXCEPT !.log = Append(@, e)]

_accept(s, type) ==
    IF s._token.type = "EOF" THEN Ret(s, NoToken)
    ELSE IF s._token.type = type
         THEN Let(ScannerNext(s.pos),
                  LAMBDA t : Ret([s EXCEPT !._token = t, !.pos = t.end], s._token))
         ELSE Ret(s, NoToken)

\* this._accept(a) ?? this._accept(b) ?? ...
RECURSIVE _acceptAny(_, _)
_acceptAny(s, types) ==
    IF types = <<>> THEN Ret(s, NoToken)
    ELSE Let(_accept(s, Head(types)),
             LAMBDA a : IF a.r # NoToken THEN a ELSE _acceptAny(a.s, Tail(types)))

\* _reset that moves the scanner's cursor and keeps the current token
ResetCursorOnly(s, token) == [s EXCEPT !.pos = ScannerResetPosition(token)]

_reset(s, token) ==
    Let(ScannerNext(ScannerResetPosition(token)),
        LAMBDA t : [s EXCEPT !._token = t, !.pos = t.end])

_createMissing(s, message) ==
    New(s, [_type |-> "Missing", start |-> s._token.start, end |-> s._token.start,
            message |-> message])

_parseAny(s, type) ==
    Let(_accept(s, type), LAMBDA a :
        IF a.r = NoToken THEN Ret(a.s, undefined)
        ELSE New(a.s, [_type |-> "Any", start |-> a.r.start, end |-> a.r.end,
                       tokenType |-> a.r.type]))

_parseLiteral(s) ==
    Let(_acceptAny(s, <<"Literal", "QuotedLiteral">>), LAMBDA a :
        IF a.r = NoToken THEN Ret(a.s, undefined)
        ELSE New(a.s, [_type |-> "Literal", start |-> a.r.start, end |-> a.r.end,
                       value |-> ScannerValue(a.r)]))

\* Number(string) for a string of digits
RECURSIVE NumberOf(_)
NumberOf(str) ==
    IF str = <<>> THEN 0
    ELSE 10 * NumberOf(SubSeq(str, 1, Len(str) - 1))
         + ((CHOOSE k \in 1..Len(Digits) : Digits[k] = str[Len(str)]) - 1)

_parseNumber(s) ==
    Let(_accept(s, "Number"), LAMBDA a :
        IF a.r = NoToken THEN Ret(a.s, undefined)
        ELSE New(a.s, [_type |-> "Number", start |-> a.r.start, end |-> a.r.end,
                       value |-> NumberOf(ScannerValue(a.r))]))

_parseDate(s) ==
    Let(_acceptAny(s, <<"Date", "DateTime">>), LAMBDA a :
        IF a.r = NoToken THEN Ret(a.s, undefined)
        ELSE New(a.s, [_type |-> "Date", start |-> a.r.start, end |-> a.r.end,
                       value |-> ScannerValue(a.r)]))

_parseVariableName(s) ==
    Let(_accept(s, "VariableName"), LAMBDA a :
        IF a.r = NoToken THEN Ret(a.s, undefined)
        ELSE New(a.s, [_type |-> "VariableName", start |-> a.r.start, end |-> a.r.end,
                       value |-> ScannerValue(a.r)]))

MissingNumberOrDate(s) == _createMissing(s, "expected number or date")
MissingDateOrNumber(s) == _createMissing(s, "expected date or number")
MissingValue(s) == _createMissing(s, "expected value")
MissingCriteria(s) == _createMissing(s, "expected sort criteria")
MissingQuery(s) == _createMissing(s, "query expected")

\* this._parseDate() ?? this._parseNumber()
DateOrNumber(s) == OrElse(_parseDate(s), _parseNumber)

_parseCompare(s) ==
    Let(_acceptAny(s, <<"LessThan", "LessThanEqual", "GreaterThan", "GreaterThanEqual">>),
        LAMBDA cmp :
        IF cmp.r = NoToken THEN Ret(cmp.s, undefined)
        ELSE Let(OrElse(DateOrNumber(cmp.s), MissingDateOrNumber), LAMBDA value :
                 New(value.s, [_type |-> "Compare", start |-> cmp.r.start,
                               end |-> value.s.heap[value.r].end,
                               cmp |-> ScannerValue(cmp.r), value |-> value.r])))

\* the history entry of a parse function that gave up: the token and cursor
\* when it was entered and when it returned
Rewound(fn, s0, s1) ==
    [ev |-> "rewind", fn |-> fn, token0 |-> s0._token, pos0 |-> s0.pos,
     token1 |-> s1._token, pos1 |-> s1.pos]

\* return undefined, noted in the history
GiveUp(fn, s0, s1) == Ret(Logged(s1, Rewound(fn, s0, s1)), undefined)

_parseRange(s) ==
    Let(DateOrNumber(s), LAMBDA open :
        IF open.r = undefined THEN GiveUp("_parseRange", s, open.s)
        ELSE Let(_accept(open.s, "Range"), LAMBDA a :
                 IF a.r = NoToken
                 THEN Let(_reset(a.s, s._token), LAMBDA b : GiveUp("_parseRange", s, b))
                 ELSE Let(OrElse(DateOrNumber(a.s), MissingNumberOrDate), LAMBDA close :
                          New(close.s, [_type |-> "Range",
                                        start |-> close.s.heap[open.r].start,
                                        end |-> close.s.heap[close.r].end,
                                        open |-> open.r, close |-> close.r]))))

_parseRangeFixedEnd(s) ==
    Let(_accept(s, "RangeFixedEnd"), LAMBDA tk :
        IF tk.r = NoToken THEN Ret(tk.s, undefined)
        ELSE Let(OrElse(DateOrNumber(tk.s), MissingNumberOrDate), LAMBDA close :
                 New(close.s, [_type |-> "Range", start |-> tk.r.start,
                               end |-> close.s.heap[close.r].end,
                               open |-> undefined, close |-> close.r])))

_parseRangeFixedStart(s) ==
    Let(DateOrNumber(s), LAMBDA value :
        IF value.r = undefined THEN value
        ELSE Let(_accept(value.s, "RangeFixedStart"), LAMBDA token :
                 IF token.r = NoToken THEN Ret(token.s, value.r)
                 ELSE New(token.s, [_type |-> "Range",
                                    start |-> token.s.heap[value.r].start,
                                    end |-> token.r.end,
                                    open |-> value.r, close |-> undefined])))

_parseSHA(s) == _parseAny(s, "SHA")

\* lines 302-311: the value of a qualified value
QualifiedValueValue(s) ==
    OrElse(OrElse(OrElse(OrElse(OrElse(OrElse(OrElse(OrElse(OrElse(
        _parseCompare(s),
        _parseRange), _parseRangeFixedStart), _parseRangeFixedEnd),
        _parseDate), _parseNumber), _parseVariableName), _parseLiteral),
        _parseSHA), MissingValue)

_parseQualifiedValue(s) ==
    Let(_accept(s, "Dash"), LAMBDA not :
    Let(_parseLiteral(not.s), LAMBDA qualifier :
    Let(IF qualifier.r = undefined THEN Ret(qualifier.s, NoToken)
        ELSE _accept(qualifier.s, "Colon"), LAMBDA colon :
        IF qualifier.r = undefined \/ colon.r = NoToken
        THEN Let(_reset(colon.s, s._token),
                 LAMBDA b : GiveUp("_parseQualifiedValue", s, b))
        ELSE Let(QualifiedValueValue(colon.s), LAMBDA value :
                 New(value.s, [_type |-> "QualifiedValue",
                               start |-> IF not.r # NoToken THEN not.r.start
                                         ELSE value.s.heap[qualifier.r].start,
                               end |-> value.s.heap[value.r].end,
                               not |-> not.r # NoToken,
                               qualifier |-> qualifier.r, value |-> value.r])))))

\* while (this._accept(TokenType.Whitespace)) { }
RECURSIVE SkipWhitespace(_)
SkipWhitespace(s) ==
    Let(_accept(s, "Whitespace"),
        LAMBDA a : IF a.r = NoToken THEN a.s ELSE SkipWhitespace(a.s))

_parseSortBy(s) ==
    Let(_acceptAny(s, <<"SortAscBy", "SortDescBy">>), LAMBDA keyword :
        IF keyword.r = NoToken THEN Ret(keyword.s, undefined)
        ELSE Let(SkipWhitespace(keyword.s), LAMBDA t :
             Let(OrElse(_parseLiteral(t), MissingCriteria), LAMBDA criteria :
                 New(criteria.s, [_type |-> "SortBy", start |-> keyword.r.start,
                                  end |-> criteria.s.heap[criteria.r].end,
                                  criteria |-> criteria.r, keyword |-> keyword.r]))))

\* a catch-all that takes SHA tokens only
ParseAnySHA(s) == _parseAny(s, "SHA")

\* this._parseAny(this._token.type)
ParseAnyCurrent(s) == _parseAny(s, s._token.type)

\* the history entry of one pass through the body of a while loop that goes
\* back to the loop's condition
Iteration(loop, token0, token1) ==
    [ev |-> "iter", loop |-> loop, token0 |-> token0, token1 |-> token1]

\* a pass through a loop body moved the parser forward
Progress(token0, token1) == token1.start > token0.start

\* the local variables of _parseQuery (and the parser's state)
QueryFrame(s, allowOR, start, nodes, sortby) ==
    [s |-> s, allowOR |-> allowOR, start |-> start, nodes |-> nodes, sortby |-> sortby]

RECURSIVE _parseQuery(_, _), QueryLoop(_)

\* lines 131-141: the loop of _parseQuery is left
QueryEnd(f) ==
    IF Len(f.nodes) = 0 THEN Ret(f.s, undefined)
    ELSE New(f.s, [_type |-> "Query", start |-> f.start, end |-> f.s.pos,
                   sortby |-> f.sortby, nodes |-> f.nodes])

\* back to the loop condition, token0 being the token the pass began with.
\* A pass that did not move the parser would be repeated for ever; the
\* history keeps it and the loop is cut there.
QueryIter(token0, frame) ==
    Let([frame EXCEPT !.s = Logged(@, Iteration("_parseQuery", token0, @._token))],
        LAMBDA f : IF Progress(token0, f.s._token) THEN QueryLoop(f) ELSE QueryEnd(f))

\* lines 103-114: a sortby kept from an earlier pass becomes ordinary nodes
Demote(frame) ==
    IF frame.sortby = undefined THEN frame
    ELSE Let(frame.s.heap[frame.sortby], LAMBDA sortby :
         Let(New(frame.s, [_type |-> "Literal", start |-> sortby.keyword.start,
                           end |-> sortby.keyword.end,
                           value |-> ScannerValue(sortby.keyword)]), LAMBDA lit :
             [frame EXCEPT !.s = lit.s,
                           !.nodes = IF lit.s.heap[sortby.criteria]._type # "Missing"
                                     THEN @ \o <<lit.r, sortby.criteria>>
                                     ELSE Append(@, lit.r),
                           !.sortby = undefined]))

\* lines 120-124
Content(s) ==
    OrElse(OrElse(OrElse(OrElse(
        _parseQualifiedValue(s),
        _parseNumber), _parseVariableName), _parseLiteral), ParseAnyCurrent)

\* lines 103-128: the sortby logic and the content dispatch
QueryContent(token0, frame) ==
    Let(Demote(frame), LAMBDA f :
    Let(IF Len(f.nodes) > 0 THEN _parseSortBy(f.s) ELSE Ret(f.s, undefined), LAMBDA sb :
        IF sb.r # undefined
        THEN QueryIter(token0, [f EXCEPT !.s = sb.s, !.sortby = sb.r])
        ELSE Let(Content(sb.s), LAMBDA node :
                 QueryIter(token0,
                     [f EXCEPT !.s = node.s,
                               !.nodes = IF node.r # undefined THEN Append(@, node.r) ELSE @,
                               !.sortby = undefined]))))

\* the history entry of an accepted OR: the nodes collected before it and
\* the right-hand side found for it (undefined: none)
AcceptedOr(orTkn, nodes, right) ==
    [ev |-> "or", or |-> orTkn, before |-> nodes, right |-> right]

\* an OrExpression that ends with its OR token
OrExpressionEndsAtOr(f, orTkn, right) ==
    Let(New(right.s, [_type |-> "Query", start |-> f.start, end |-> right.s.pos,
                      sortby |-> f.sortby, nodes |-> f.nodes]), LAMBDA left :
        New(Logged(left.s, AcceptedOr(orTkn, f.nodes, right.r)),
            [_type |-> "OrExpression", or |-> orTkn,
             start |-> left.s.heap[left.r].start, end |-> orTkn.end,
             left |-> left.r, right |-> right.r]))

\* lines 73-89: the OrExpression of the nodes collected and the right-hand side
OrExpression(f, orTkn, right) ==
    Let(New(right.s, [_type |-> "Query", start |-> f.start, end |-> right.s.pos,
                      sortby |-> f.sortby, nodes |-> f.nodes]), LAMBDA left :
        New(Logged(left.s, AcceptedOr(orTkn, f.nodes, right.r)),
            [_type |-> "OrExpression", or |-> orTkn,
             start |-> left.s.heap[left.r].start,
             end |-> IF left.s.heap[right.r].end # 0 THEN left.s.heap[right.r].end
                     ELSE orTkn.end,
             left |-> left.r, right |-> right.r]))

\* a dangling OR that is rewound over and dropped
DanglingOrDropped(f, orTkn, anchor, s0, right) ==
    Let(_reset(right.s, anchor), LAMBDA b :
        [f EXCEPT !.s = Logged(Logged(b, Rewound("_parseQuery", s0, b)),
                               AcceptedOr(orTkn, f.nodes, undefined))])

\* lines 91-97: no right-hand side, the OR token becomes an Any node
DanglingOr(f, orTkn, anchor, s0, right) ==
    Let(_reset(right.s, anchor), LAMBDA b :
    Let(New(Logged(Logged(b, Rewound("_parseQuery", s0, b)),
                   AcceptedOr(orTkn, f.nodes, undefined)),
            [_type |-> "Any", tokenType |-> orTkn.type,
             start |-> orTkn.start, end |-> orTkn.end]), LAMBDA any :
        [f EXCEPT !.s = any.s, !.nodes = Append(@, any.r)]))

\* lines 59-129: the while loop of _parseQuery
QueryLoop(f) ==
    IF f.s._token.type \in {"NewLine", "EOF"} THEN QueryEnd(f)
    ELSE
    Let(_acceptAny(f.s, <<"Whitespace", "LineComment">>), LAMBDA ws :
        IF ws.r # NoToken THEN QueryIter(f.s._token, [f EXCEPT !.s = ws.s])
        ELSE
        Let(IF f.allowOR /\ Len(f.nodes) > 0 THEN _accept(ws.s, "OR")
            ELSE Ret(ws.s, NoToken), LAMBDA orTkn :
            IF orTkn.r = NoToken
            THEN QueryContent(f.s._token, [f EXCEPT !.s = orTkn.s])
            ELSE
            Let(_parseQuery(orTkn.s, f.allowOR), LAMBDA right :
                IF right.r # undefined
                THEN OrExpression(f, orTkn.r, right)
                ELSE QueryContent(f.s._token,
                         DanglingOr(f, orTkn.r, orTkn.s._token, orTkn.s, right)))))

_parseQuery(s, allowOR) ==
    Let(QueryFrame(s, allowOR, s._token.start, <<>>, undefined), QueryLoop)

ParseQueryNoOR(s) == _parseQuery(s, FALSE)
ParseQueryOR(s) == _parseQuery(s, TRUE)

_parseVariableDefinition(s) ==
    Let(_parseVariableName(s), LAMBDA name :
        IF name.r = undefined THEN GiveUp("_parseVariableDefinition", s, name.s)
        ELSE Let(_accept(name.s, "Equals"), LAMBDA eq :
                 IF eq.r = NoToken
                 THEN Let(_reset(eq.s, s._token),
                          LAMBDA b : GiveUp("_parseVariableDefinition", s, b))
                 ELSE Let(OrElse(ParseQueryNoOR(eq.s), MissingQuery), LAMBDA value :
                          New(value.s, [_type |-> "VariableDefinition",
                                        start |-> value.s.heap[name.r].start,
                                        end |-> value.s.heap[value.r].end,
                                        name |-> name.r, value |-> value.r]))))

RECURSIVE ParseLoop(_)

\* lines 44-49: the QueryDocument that parse returns
ParseEnd(f) ==
    New(f.s, [_type |-> "QueryDocument", start |-> 0, end |-> Len(text),
              nodes |-> f.nodes])

\* back to the condition of the loop of parse (cut like QueryIter)
ParseIter(token0, frame) ==
    Let([frame EXCEPT !.s = Logged(@, Iteration("parse", token0, @._token))],
        LAMBDA f : IF Progress(token0, f.s._token) THEN ParseLoop(f) ELSE ParseEnd(f))

\* lines 34-43: the while loop of parse; f = [s, nodes]
ParseLoop(f) ==
    IF f.s._token.type = "EOF" THEN ParseEnd(f)
    ELSE Let(_acceptAny(f.s, <<"Whitespace", "NewLine">>), LAMBDA ws :
             IF ws.r # NoToken THEN ParseIter(f.s._token, [f EXCEPT !.s = ws.s])
             ELSE Let(OrElse(_parseVariableDefinition(ws.s), ParseQueryOR), LAMBDA node :
                      ParseIter(f.s._token,
                          [s |-> node.s,
                           nodes |-> IF node.r # undefined THEN Append(f.nodes, node.r)
                                     ELSE f.nodes])))

\* Parser.parse(text)
parse ==
    Let(ScannerNext(0), LAMBDA t :
        Let([s |-> ParserState(t, t.end, <<>>, <<>>), nodes |-> <<>>], ParseLoop))

--------------------------------------------------------------------------
(* Tree utilities *)

\* one call of the callback of walk
Visit(node, parent) == [node |-> node, parent |-> parent]

\* stack.unshift(child); stack.unshift(node) for each child in turn
RECURSIVE UnshiftAll(_, _, _)
UnshiftAll(stack, children, node) ==
    IF children = <<>> THEN stack
    ELSE UnshiftAll(<<node, Head(children)>> \o stack, Tail(children), node)

\* lines 133-182: what the switch of walk puts on the stack for node n = heap[node]
Pushed(n, node, nodes, rest) ==
    CASE n._type = "Compare" -> <<node, n.value>> \o rest
      [] n._type = "Range" -> <<node, n.open, node, n.close>> \o rest
      [] n._type = "QualifiedValue" -> <<node, n.qualifier, node, n.value>> \o rest
      [] n._type = "VariableDefinition" -> <<node, n.name, node, n.value>> \o rest
      [] n._type = "OrExpression" -> <<node, n.left, node, n.right>> \o rest
      [] n._type = "SortBy" -> <<node, n.criteria>> \o rest
      [] n._type = "Query" ->
             UnshiftAll(IF n.sortby # undefined THEN <<node, n.sortby>> \o rest ELSE rest,
                        nodes, node)
      [] n._type = "QueryDocument" -> UnshiftAll(rest, nodes, node)
      [] OTHER -> rest

\* node.nodes.reverse(): reverses the array in place and returns it
ReversedNodes(n) == IF n._type \in {"Query", "QueryDocument"} THEN Reverse(n.nodes) ELSE <<>>

\* lines 126-183: the while loop of walk; w = [heap, stack, visits]
RECURSIVE WalkLoop(_)
WalkLoop(w) ==
    IF Len(w.stack) = 0 THEN w
    ELSE IF w.stack[2] = undefined
         THEN Let([w EXCEPT !.stack = SubSeq(@, 3, Len(@))], WalkLoop)
         ELSE Let(ReversedNodes(w.heap[w.stack[2]]), LAMBDA nodes :
                  Let([heap |-> IF w.heap[w.stack[2]]._type \in {"Query", "QueryDocument"}
                                THEN [w.heap EXCEPT ![w.stack[2]].nodes = nodes]
                                ELSE w.heap,
                       stack |-> Pushed(w.heap[w.stack[2]], w.stack[2], nodes,
                                        SubSeq(w.stack, 3, Len(w.stack))),
                       visits |-> Append(w.visits, Visit(w.stack[2], w.stack[1]))],
                      WalkLoop))

\* Utils.walk(node, callback): the heap it leaves and the calls of callback
walk(h, node) ==
    IF node = undefined THEN [heap |-> h, stack |-> <<>>, visits |-> <<>>]
    ELSE Let([heap |-> h, stack |-> <<undefined, node>>, visits |-> <<>>], WalkLoop)

containsPosition(n, offset) == n.start <= offset /\ offset <= n.end

\* the callback of nodeAt applied to the calls of walk's callback, in their
\* order; acc = [result, parents]
RECURSIVE NodeAtVisits(_, _, _, _)
NodeAtVisits(h, visits, offset, acc) ==
    IF visits = <<>> THEN acc
    ELSE Let(IF containsPosition(h[Head(visits).node], offset)
             THEN [result |-> Head(visits).node,
                   parents |-> Append(acc.parents, Head(visits).node)]
             ELSE acc,
             LAMBDA acc1 : NodeAtVisits(h, Tail(visits), offset, acc1))

\* Utils.nodeAt(node, offset, parents = []): heap, result, parents
nodeAt(h, node, offset) ==
    Let(walk(h, node), LAMBDA w :
    Let(NodeAtVisits(h, w.visits, offset, [result |-> undefined, parents |-> <<>>]),
        LAMBDA r : [heap |-> w.heap, result |-> r.result, parents |-> r.parents]))

\* one argument of _flatten: the rendering of a node, a list of strings for
\* an OrExpression or a QueryDocument and a string otherwise
FlattenArg(type, rendering) ==
    [isArray |-> type \in {"OrExpression", "QueryDocument"}, value |-> rendering]

\* a _flatten that puts each argument in front of the result
FlattenReversed(args) ==
    Concat([i \in 1..Len(args) |->
        IF args[Len(args) + 1 - i].value = <<>> THEN <<>>
        ELSE IF args[Len(args) + 1 - i].isArray THEN args[Len(args) + 1 - i].value
             ELSE <<args[Len(args) + 1 - i].value>>])

\* _flatten(...args): skips '', concatenates an array, pushes a string
Flatten(args) ==
    Concat([i \in 1..Len(args) |->
        IF args[i].value = <<>> THEN <<>>
        ELSE IF args[i].isArray THEN args[i].value ELSE <<args[i].value>>])

\* _print(node) of Utils.print with ctx = {text, variableValues}; n = h[node]
RECURSIVE PrintNode(_, _, _)
PrintNode(h, variableValues, n) ==
    CASE n._type \in {"Missing", "VariableDefinition"} -> <<>>
      [] n._type = "SortBy" -> substring(text, h[n.criteria].start, h[n.criteria].end)
      [] n._type = "VariableName" ->
             IF n.value \in DOMAIN variableValues /\ variableValues[n.value] # <<>>
             THEN variableValues[n.value] ELSE n.value
      [] n._type \in {"Any", "Literal", "Date", "Number"} -> substring(text, n.start, n.end)
      [] n._type = "Compare" -> n.cmp \o PrintNode(h, variableValues, h[n.value])
      [] n._type = "Range" ->
             IF n.open # undefined /\ n.close # undefined
             THEN PrintNode(h, variableValues, h[n.open]) \o <<".", ".">>
                      \o PrintNode(h, variableValues, h[n.close])
             ELSE IF n.open # undefined
                  THEN PrintNode(h, variableValues, h[n.open]) \o <<".", ".", "*">>
                  ELSE <<"*", ".", ".">> \o PrintNode(h, variableValues, h[n.close])
      [] n._type = "QualifiedValue" ->
             (IF n.not THEN <<"-">> ELSE <<>>) \o h[n.qualifier].value \o <<":">>
                 \o PrintNode(h, variableValues, h[n.value])
      [] n._type = "Query" ->
             Concat([i \in 1..Len(n.nodes) |->
                 (IF i > 1 /\ h[n.nodes[i]].start # h[n.nodes[i - 1]].end
                  THEN <<" ">> ELSE <<>>) \o PrintNode(h, variableValues, h[n.nodes[i]])])
      [] n._type = "OrExpression" ->
             Flatten(<<FlattenArg(h[n.left]._type, PrintNode(h, variableValues, h[n.left])),
                       FlattenArg(h[n.right]._type, PrintNode(h, variableValues, h[n.right]))>>)
      [] n._type = "QueryDocument" ->
             Flatten([i \in 1..Len(n.nodes) |->
                 FlattenArg(h[n.nodes[i]]._type, PrintNode(h, variableValues, h[n.nodes[i]]))])

\* Utils.print(node, ctx)
print(h, variableValues, node) == Let(h[node], LAMBDA n : PrintNode(h, variableValues, n))

-----
(* The state machine *)

\* the token types of the values of qualified values
ValueAlphabet ==
    {"Number", "Date", "Range", "RangeFixedStart", "RangeFixedEnd", "LessThan",
     "GreaterThanEqual", "VariableName", "Literal", "Whitespace"}

\* the token types of query lines with OR and sort-by
LineAlphabet == {"QuotedLiteral", "Whitespace", "LineComment", "NewLine", "OR", "SortAscBy"}

\* the qualified values with a short value
ValueInputs ==
    {prefix \o v : prefix \in {<<"Literal", "Colon">>, <<"Dash", "Literal", "Colon">>},
                   v \in Inputs(ValueAlphabet, MaxValueTokens)}

\* ctx.variableValues: no variable resolved, or every variable resolved to "v"
VariableValues ==
    {<<>>, [name \in {<<"$", Letters[k]>> : k \in 1..Len(Letters)} |-> <<"v">>]}

InitOf(kinds) ==
    /\ text = TextOf(kinds)
    /\ toks = TokensOf(kinds)
    /\ pc = "init"
    /\ _token = Token("EOF", 0, 0)
    /\ pos = 0
    /\ heap = <<>>
    /\ doc = undefined
    /\ log = <<>>
    /\ out = [op |-> "none"]

\* The inputs: every short text, every qualified value with a short value,
\* and longer texts of words, blanks, comments, line ends, OR and sort-by.
Init ==
    \/ \E kinds \in Inputs(TokenType, MaxTokens) : InitOf(kinds)
    \/ \E kinds \in ValueInputs : InitOf(kinds)
    \/ \E kinds \in Inputs(LineAlphabet, MaxLineTokens) : InitOf(kinds)

\* parse(text)
Parse ==
    /\ pc = "init"
    /\ LET p == parse
       IN  /\ _token' = p.s._token
           /\ pos' = p.s.pos
           /\ heap' = p.s.heap
           /\ log' = p.s.log
           /\ doc' = p.r
    /\ pc' = "parsed"
    /\ UNCHANGED <<text, toks, out>>

\* Utils.walk(doc, callback) with a callback that records its arguments
Walk ==
    /\ pc = "parsed"
    /\ LET w == walk(heap, doc)
       IN  /\ heap' = w.heap
           /\ out' = [op |-> "walk", visits |-> w.visits]
    /\ UNCHANGED <<text, toks, pc, _token, pos, doc, log>>

\* Utils.nodeAt(doc, offset, parents) with parents = []
NodeAt ==
    /\ pc = "parsed"
    /\ \E offset \in 0..Len(text) :
         LET r == nodeAt(heap, doc, offset)
         IN  /\ heap' = r.heap
             /\ out' = [op |-> "nodeAt", offset |-> offset, result |-> r.result,
                        parents |-> r.parents]
    /\ UNCHANGED <<text, toks, pc, _token, pos, doc, log>>

\* Utils.print(doc, {text, variableValues})
PrintTree ==
    /\ pc = "parsed"
    /\ \E variableValues \in VariableValues :
         out' = [op |-> "print", variableValues |-> variableValues,
                 printed |-> print(heap, variableValues, doc)]
    /\ UNCHANGED <<text, toks, pc, _token, pos, heap, doc, log>>

Next == Parse \/ Walk \/ NodeAt \/ PrintTree

\* The inputs whose trees the tree utilities are called on.
InitTree ==
    \/ \E kinds \in Inputs(TokenType, MaxTokens) : InitOf(kinds)
    \/ \E kinds \in Inputs(LineAlphabet, MaxTreeTokens) : InitOf(kinds)

\* the whole program: parse, then the tree utilities in any order
Spec == InitTree /\ [][Next]_vars

\* parse alone
SpecParse == Init /\ [][Parse]_vars

\* parse, then Utils.print
SpecPrint == Init /\ [][Parse \/ PrintTree]_vars

--------------------------------------------------------------------------
(* The tree below a node, as the interfaces of nodes.ts define it *)

\* the children of node object n, in document order
ChildrenOf(n) ==
    LET Defined(ids) == SelectSeq(ids, LAMBDA id : id # undefined)
    IN  CASE n._type = "Compare" -> <<n.value>>
          [] n._type = "Range" -> Defined(<<n.open, n.close>>)
          [] n._type = "QualifiedValue" -> <<n.qualifier, n.value>>
          [] n._type = "VariableDefinition" -> <<n.name, n.value>>
          [] n._type = "OrExpression" -> <<n.left, n.right>>
          [] n._type = "SortBy" -> <<n.criteria>>
          [] n._type = "Query" -> n.nodes \o Defined(<<n.sortby>>)
          [] n._type = "QueryDocument" -> n.nodes
          [] OTHER -> <<>>

\* the nodes of the tree below (and including) node id
RECURSIVE NodesBelow(_, _)
NodesBelow(h, id) ==
    {id} \cup UNION {NodesBelow(h, c) : c \in RangeOf(ChildrenOf(h[id]))}

\* the nodes of the tree that parse returned
TreeNodes == IF doc = undefined THEN {} ELSE NodesBelow(heap, doc)

\* the (node, parent) pairs of the tree below id, a node before its
\* children, the children in document order
RECURSIVE Preorder(_, _, _)
Preorder(h, id, parent) ==
    <<Visit(id, parent)>>
        \o Concat([i \in 1..Len(ChildrenOf(h[id])) |-> Preorder(h, ChildrenOf(h[id])[i], id)])

\* the chain of nodes from node id down to node target ( <<>> if target is
\* not below id)
RECURSIVE PathTo(_, _, _)
PathTo(h, id, target) ==
    IF id = target THEN <<id>>
    ELSE LET via == {c \in RangeOf(ChildrenOf(h[id])) : target \in NodesBelow(h, c)}
         IN  IF via = {} THEN <<>>
             ELSE <<id>> \o PathTo(h, CHOOSE c \in via : TRUE, target)

\* the number of ancestors of node id in the tree
Depth(id) == Len(PathTo(heap, doc, id)) - 1

\* the entries of the history of parse of one kind
History(ev) == {i \in 1..Len(log) : log[i].ev = ev}

--------------------------------------------------------------------------
(* C1 *)

\* C1: parse terminates and returns a QueryDocument.  When parse has
\* returned, the node it returned is a QueryDocument, the parser stands at
\* EOF, and every pass through the body of the loop of parse and of the loop
\* of _parseQuery that went back to the loop's condition had moved the
\* parser to a later token.
ParseTerminates ==
    pc = "parsed" =>
        /\ doc # undefined
        /\ heap[doc]._type = "QueryDocument"
        /\ _token.type = "EOF"
        /\ \A i \in History("iter") : Progress(log[i].token0, log[i].token1)

\* parse returned for an input with a dangling OR, after several passes
\* through its loops
DanglingOrParsed ==
    /\ pc = "parsed"
    /\ \E i \in History("or") : log[i].right = undefined
    /\ \E i, j \in History("iter") : log[i].loop = "parse" /\ log[j].loop = "_parseQuery"

--------------------------------------------------------------------------
(* C10 *)

\* C10: backtracking is atomic.  Whenever _parseQualifiedValue, _parseRange
\* or _parseVariableDefinition returned undefined, and whenever the
\* right-hand _parseQuery after an accepted OR returned undefined and the
\* caller had rewound, the parser's current token and the scanner's
\* position were what they were when the attempt began.
BacktrackingAtomic ==
    \A i \in History("rewind") :
        /\ log[i].token1 = log[i].token0
        /\ log[i].pos1 = log[i].pos0

\* _parseRange gave up after it had consumed its open bound, and
\* _parseQualifiedValue after it had consumed a qualifier
RewoundAfterConsuming ==
    /\ pc = "parsed"
    /\ \E i \in History("rewind") :
           log[i].fn = "_parseRange" /\ log[i].token0.type \in {"Number", "Date"}
    /\ \E i \in History("rewind") :
           log[i].fn = "_parseQualifiedValue" /\ log[i].token0.type = "Literal"

--------------------------------------------------------------------------
(* C2 *)

\* C2: span containment.  In the tree that parse returned every node has
\* start <= end, and for every (node, parent) pair that walk reports the
\* node's span lies within the parent's span.
SpanContainment ==
    pc = "parsed" =>
        /\ \A n \in TreeNodes : heap[n].start <= heap[n].end
        /\ LET visits == walk(heap, doc).visits
           IN  /\ {visits[k].node : k \in 1..Len(visits)} = TreeNodes
               /\ \A k \in 1..Len(visits) :
                      visits[k].parent # undefined =>
                          /\ heap[visits[k].parent].start <= heap[visits[k].node].start
                          /\ heap[visits[k].node].end <= heap[visits[k].parent].end

\* the tree has an OrExpression whose left Query keeps a sortby with a
\* Missing criteria
OrWithSortByParsed ==
    /\ pc = "parsed"
    /\ \E o \in TreeNodes :
           /\ heap[o]._type = "OrExpression"
           /\ heap[heap[o].left].sortby # undefined
           /\ heap[heap[heap[heap[o].left].sortby].criteria]._type = "Missing"

--------------------------------------------------------------------------
(* C8 *)

\* after token tk only blanks and line comments follow up to the next line
\* end or the end of the text
OnlyBlanksFollow(tk) ==
    \A j \in 1..Len(toks) :
        (/\ toks[j].start >= tk.end
         /\ \A k \in 1..(j - 1) : toks[k].start >= tk.end => toks[k].type # "NewLine")
        => toks[j].type \in {"Whitespace", "LineComment", "NewLine"}

\* the Query nodes of the tree that hold, right after the nodes `before`, an
\* Any node for the OR token tk
QueriesKeeping(tk, before) ==
    {q \in TreeNodes :
        /\ heap[q]._type = "Query"
        /\ \E k \in 1..Len(heap[q].nodes) :
               /\ heap[heap[q].nodes[k]] =
                      [_type |-> "Any", tokenType |-> "OR", start |-> tk.start, end |-> tk.end]
               /\ SubSeq(heap[q].nodes, 1, k - 1) = before}

\* C8: dangling OR.  An OR token that was accepted (allowOR, at least one
\* node collected) and is followed only by blanks and line comments up to
\* the line end gets no OrExpression; it is an Any node of exactly one Query
\* of the tree, right after the nodes collected before it.
DanglingOrKept ==
    pc = "parsed" =>
        \A i \in History("or") :
            OnlyBlanksFollow(log[i].or) =>
                /\ log[i].right = undefined
                /\ \A n \in TreeNodes :
                       heap[n]._type = "OrExpression" => heap[n].or # log[i].or
                /\ Cardinality(QueriesKeeping(log[i].or, log[i].before)) = 1

\* an accepted OR with a blank after it and nothing else on its line
DanglingOrSeen ==
    /\ pc = "parsed"
    /\ \E i \in History("or") :
           /\ OnlyBlanksFollow(log[i].or)
           /\ \E j \in 1..Len(toks) :
                  toks[j].type = "Whitespace" /\ toks[j].start = log[i].or.end

--------------------------------------------------------------------------
(* C9 *)

\* C9: a query ends at the first newline.  No content node of a Query of
\* the tree reaches beyond a NewLine token that begins at or after the
\* Query's start.
QueryEndsAtNewLine ==
    pc = "parsed" =>
        \A q \in TreeNodes :
            heap[q]._type = "Query" =>
                \A c \in RangeOf(heap[q].nodes) :
                    ~ \E j \in 1..Len(toks) :
                          /\ toks[j].type = "NewLine"
                          /\ heap[q].start <= toks[j].start
                          /\ toks[j].start < heap[c].end

--------------------------------------------------------------------------
(* C7 *)

\* C7: sort-by demotion.  In every Query of the tree the content nodes are
\* in increasing start order, a sortby that is kept has no content node
\* starting after it, and every sort keyword of the text that is not the
\* keyword of a kept sortby is a Literal or Any node with the keyword's span.
SortByDemotion ==
    pc = "parsed" =>
        /\ \A q \in TreeNodes :
               heap[q]._type = "Query" =>
                   /\ \A k \in 1..(Len(heap[q].nodes) - 1) :
                          heap[heap[q].nodes[k]].start < heap[heap[q].nodes[k + 1]].start
                   /\ heap[q].sortby # undefined =>
                          \A c \in RangeOf(heap[q].nodes) :
                              heap[c].start < heap[heap[q].sortby].start
        /\ \A j \in 1..Len(toks) :
               toks[j].type \in {"SortAscBy", "SortDescBy"} =>
                   \E n \in TreeNodes :
                       /\ heap[n].start = toks[j].start
                       /\ \/ heap[n]._type = "SortBy" /\ heap[n].keyword = toks[j]
                          \/ heap[n]._type \in {"Literal", "Any"} /\ heap[n].end = toks[j].end

--------------------------------------------------------------------------
(* C3 *)

\* C3: the tree utilities are read-only: no call of walk, nodeAt or print
\* changes a node of the tree.
TreeReadOnly == [][pc = "parsed" => heap' = heap]_vars

--------------------------------------------------------------------------
(* C4 *)

\* C4: every call of walk reports each node of the tree once, with its
\* direct parent, a node before its children and the children in document
\* order, that is in the order in which parse built them.
WalkInDocumentOrder ==
    out.op = "walk" => out.visits = Preorder(parse.s.heap, doc, undefined)

--------------------------------------------------------------------------
(* C5 *)

\* C5: nodeAt returns a deepest node among those that contain the offset
\* (undefined only if there is none), and the parents it reports are the
\* chain from the root down to the node it returns.
NodeAtDeepest ==
    out.op = "nodeAt" =>
        LET containing == {n \in TreeNodes : containsPosition(heap[n], out.offset)}
        IN  /\ (out.result = undefined) <=> (containing = {})
            /\ out.result # undefined =>
                   /\ out.result \in containing
                   /\ \A n \in containing : Depth(n) <= Depth(out.result)
                   /\ out.parents = PathTo(heap, doc, out.result)

--------------------------------------------------------------------------
(* C6 *)

\* the positions of the OR tokens of the text, in their order
OrPositions == SelectSeq([j \in 1..Len(toks) |-> j], LAMBDA j : toks[j].type = "OR")

\* the i-th of the stretches of text that the OR tokens separate
Segment(i) ==
    [start |-> IF i = 1 THEN 0 ELSE toks[OrPositions[i - 1]].end,
     end |-> IF i > Len(OrPositions) THEN Len(text) ELSE toks[OrPositions[i]].start]

\* the text is one line q1 OR ... OR qn of n >= 2 queries, each with a
\* token that is neither blank nor comment, and not a variable definition
IsOrLine ==
    /\ OrPositions # <<>>
    /\ \A j \in 1..Len(toks) : toks[j].type # "NewLine"
    /\ \A i \in 1..(Len(OrPositions) + 1) :
           \E j \in 1..Len(toks) :
               /\ toks[j].type \notin {"Whitespace", "LineComment", "OR"}
               /\ Segment(i).start <= toks[j].start
               /\ toks[j].end <= Segment(i).end
    /\ ~ \E j \in 1..(Len(toks) - 1) :
           /\ toks[j].type = "VariableName"
           /\ toks[j + 1].type = "Equals"
           /\ \A k \in 1..(j - 1) : toks[k].type = "Whitespace"

\* the Query nodes of a chain of OrExpressions, left to right
RECURSIVE OrChain(_)
OrChain(id) ==
    IF heap[id]._type = "OrExpression"
    THEN <<heap[id].left>> \o OrChain(heap[id].right)
    ELSE <<id>>

\* the OR tokens of a chain of OrExpressions, outermost first
RECURSIVE OrTokens(_)
OrTokens(id) ==
    IF heap[id]._type = "OrExpression"
    THEN <<heap[id].or>> \o OrTokens(heap[id].right)
    ELSE <<>>

\* C6: OR chains are right-associative and print flattens them in source
\* order.  For a line q1 OR ... OR qn the document has one top-level node,
\* an OrExpression whose chain of right-hand sides has the n queries left
\* to right, the i-th a Query whose nodes lie in qi, joined by the OR tokens
\* in their order; and print of the document gives the n renderings of
\* these queries in that order.
OrChainsFlatten ==
    (pc = "parsed" /\ IsOrLine) =>
        /\ Len(heap[doc].nodes) = 1
        /\ LET top == heap[doc].nodes[1]
               chain == OrChain(top)
           IN  /\ heap[top]._type = "OrExpression"
               /\ Len(chain) = Len(OrPositions) + 1
               /\ OrTokens(top) = [i \in 1..Len(OrPositions) |-> toks[OrPositions[i]]]
               /\ \A i \in 1..Len(chain) :
                      /\ heap[chain[i]]._type = "Query"
                      /\ \A c \in RangeOf(heap[chain[i]].nodes) :
                             /\ Segment(i).start <= heap[c].start
                             /\ heap[c].end <= Segment(i).end
               /\ out.op = "print" =>
                      out.printed = [i \in 1..Len(chain) |->
                          print(heap, out.variableValues, chain[i])]

\* print was called on the tree of a line of three queries
ThreeQueriesPrinted ==
    /\ pc = "parsed"
    /\ IsOrLine
    /\ Len(OrPositions) = 2
    /\ out.op = "print"

====
